---- MODULE Spec2Model ----
(***************************************************************************)
(* Model of plugin.video.artetv: the catalog client (resources/lib/api.py) *)
(* and the navigation controller (resources/lib/addon.py).                 *)
(*                                                                         *)
(* Text values (Python str / None) are sequences of tokens: <<>> stands    *)
(* for both None and "" (the code only ever tests them for truthiness),    *)
(* and a URL such as "https://api.arte.tv/api/emac/v3/fr/app/X" is the     *)
(* sequence <<base, "/", "fr", "/", "app", "/", "X">>.  Python dicts with  *)
(* optional keys are records whose DOMAIN holds the keys that are present. *)
(***************************************************************************)
EXTENDS Integers, Sequences, FiniteSets, TLC

VARIABLES
    \* --- one request handled by ArteTVAddon (specification Spec)
    pc,          \* "start" -> "constructed" -> "done"
    setting,     \* the stored addon setting "language"
    kodiLang,    \* xbmc.getLanguage(ISO_639_1)
    params,      \* the request's query string as a dict
    language,    \* ArteTVAddon._language / ArteTV._language
    session,     \* ArteTV._session: "none", "open" or "closed"
    calls,       \* the calls made to the host (xbmcplugin), in order
    requests,    \* the URLs requested through the session, in order
    raised,      \* the exception that left run(), or "none"
    appResp,     \* what the catalog (app) API answered during the request
    playerResp,  \* what the player API answered during the request
    \* --- ArteTV._get_item_url on its own (specification SpecRoute)
    rPc, rItem, rPath, rIndex, rUrl,
    \* --- ArteTV.get_collection on its own (specification SpecCollection)
    cPc, cResp, cPath, cLevel, cOut,
    cFollow,     \* the position in cOut.items of the item followed, or 0
    cNext,       \* what get_collection yielded for the followed target
    \* --- ArteTV.get_video_streams on its own (specification SpecStreams)
    sPc, sResp, sOut

addonVars == <<pc, setting, kodiLang, params, language, session, calls,
               requests, raised, appResp, playerResp>>
routeVars == <<rPc, rItem, rPath, rIndex, rUrl>>
collVars == <<cPc, cResp, cPath, cLevel, cOut, cFollow, cNext>>
streamVars == <<sPc, sResp, sOut>>
vars == <<addonVars, routeVars, collVars, streamVars>>

----------------------------------------------------------------------------
(* Bounds of the model *)

\* longest candidate sequence (zones / data) of a catalog payload
MaxItems == 2
\* largest positional index handed to _get_item_url on its own
MaxIndex == 2
\* most stream groups in a player payload
MaxStreams == 2

----------------------------------------------------------------------------
(* Text helpers *)

Truthy(t) == t # <<>>

SeqsUpTo(S, n) == UNION {[1..k -> S] : k \in 0..n}

IsPrefix(p, s) == Len(p) <= Len(s) /\ SubSeq(s, 1, Len(p)) = p

\* str.replace(old, new) for a non-empty old: every non-overlapping
\* occurrence, scanning left to right
RECURSIVE Replace(_, _, _)
Replace(s, old, new) ==
    IF s = <<>> \/ old = <<>> THEN s
    ELSE IF IsPrefix(old, s)
         THEN new \o Replace(SubSeq(s, Len(old) + 1, Len(s)), old, new)
         ELSE <<Head(s)>> \o Replace(Tail(s), old, new)

RECURSIVE LStrip(_, _)
LStrip(s, ch) ==
    IF s # <<>> /\ Head(s) = ch THEN LStrip(Tail(s), ch) ELSE s

RECURSIVE RStrip(_, _)
RStrip(s, ch) ==
    IF s # <<>> /\ s[Len(s)] = ch
    THEN RStrip(SubSeq(s, 1, Len(s) - 1), ch) ELSE s

\* str.strip(ch)
Strip(s, ch) == RStrip(LStrip(s, ch), ch)

----------------------------------------------------------------------------
(* api.py: constants and URLs *)

LANGUAGES == {"de", "en", "es", "fr", "it", "pl"}

API_V3_BASE_URL == <<"https://api.arte.tv/api/emac/v3">>

API_V2_URL == <<"https://api.arte.tv/api/player/v2/config">>

\* ArteTV.__init__: "{}/{}/app".format(_API_V3_BASE_URL, language)
ApiV3Url(lang) == API_V3_BASE_URL \o <<"/", lang, "/", "app">>

\* _query_app_api: "{}/{}".format(self._api_v3_url, path.strip("/"))
AppRequestUrl(lang, path) == ApiV3Url(lang) \o <<"/">> \o Strip(path, "/")

\* _query_player_api: "{}/{}/{}".format(_API_V2_URL, language, video_id)
PlayerRequestUrl(lang, videoId) == API_V2_URL \o <<"/", lang, "/">> \o videoId

----------------------------------------------------------------------------
(* Raw catalog items *)

\* an item none of whose optional fields is present
RawItem ==
    [title |-> <<>>, codeName |-> <<>>, kindCode |-> <<>>,
     isCollection |-> FALSE, programId |-> <<>>, linkPage |-> <<>>,
     data |-> <<>>, images |-> <<>>, nextPage |-> <<>>,
     fullDescription |-> <<>>, description |-> <<>>,
     shortDescription |-> <<>>, ageRating |-> <<>>, duration |-> <<>>,
     subtitle |-> <<>>, teaserText |-> <<>>, availabilityStart |-> <<>>]

----------------------------------------------------------------------------
(* ArteTV._get_item_url *)

NoUrl == [none |-> TRUE]

\* the same routing with rule 3 (nested data) tried before rule 1
get_item_url_dataFirst(item, path, level) ==
    IF Truthy(item.data)
    THEN [mode |-> "collection", path |-> path, level |-> level]
    ELSE IF item.isCollection /\ Truthy(item.programId)
    THEN [mode |-> "collection", path |-> item.programId]
    ELSE IF Truthy(item.linkPage) /\ item.linkPage # path
    THEN [mode |-> "collection", path |-> item.linkPage]
    ELSE IF Truthy(item.programId)
    THEN [mode |-> "watch", id |-> item.programId]
    ELSE NoUrl

get_item_url(item, path, level) ==
    LET program_id == item.programId
        next_path == item.linkPage
    IN  IF item.isCollection /\ Truthy(program_id)
        THEN [mode |-> "collection", path |-> program_id]
        ELSE IF Truthy(next_path) /\ next_path # path
        THEN [mode |-> "collection", path |-> next_path]
        ELSE IF Truthy(item.data)
        THEN [mode |-> "collection", path |-> path, level |-> level]
        ELSE IF Truthy(program_id)
        THEN [mode |-> "watch", id |-> program_id]
        ELSE NoUrl

----------------------------------------------------------------------------
(* ArteTV._parse_item_art *)

\* _IMAGE_TYPE_MAPPING.get(image_type); <<>> when the type is unmapped
KodiImageType(t) ==
    CASE t = "banner" -> <<"banner">>
      [] t = "landscape" -> <<"fanart">>
      [] t = "portrait" -> <<"poster">>
      [] t = "square" -> <<"thumb">>
      [] OTHER -> <<>>

\* sorted(resolutions, key=w)[-1].url: sorted is stable, so the pick is the
\* last resolution, in payload order, among those of the greatest width
BestResolutionUrl(res) ==
    LET best == CHOOSE i \in 1..Len(res) :
                    /\ \A j \in 1..Len(res) : res[j].w <= res[i].w
                    /\ \A j \in (i + 1)..Len(res) : res[j].w < res[i].w
    IN  res[best].url

NoArt ==
    [banner |-> <<>>, fanart |-> <<>>, poster |-> <<>>, thumb |-> <<>>,
     icon |-> <<>>]

ArtError == [error |-> "TYPE INCONNU"]

\* art.setdefault(key, value)
SetDefault(art, key, value) ==
    IF art[key] = <<>> THEN [art EXCEPT ![key] = value] ELSE art

RECURSIVE ParseImages(_, _)
ParseImages(images, art) ==
    IF images = <<>> THEN art
    ELSE LET image == Head(images)
             kodi_image_type == KodiImageType(image.type)
         IN  IF ~Truthy(kodi_image_type) THEN ArtError
             ELSE IF image.resolutions = <<>>
             THEN ParseImages(Tail(images), art)
             ELSE ParseImages(
                      Tail(images),
                      SetDefault(art, kodi_image_type[1],
                                 BestResolutionUrl(image.resolutions)))

parse_item_art(item) ==
    LET art == ParseImages(item.images, NoArt)
    IN  IF art = ArtError THEN ArtError
        ELSE SetDefault(art, "icon", art.fanart)

----------------------------------------------------------------------------
(* ArteTV._parse_item *)

\* a or b or c on Text values
Or3(a, b, c) == IF Truthy(a) THEN a ELSE IF Truthy(b) THEN b ELSE c

\* isoparse(date).strftime("%Y-%m-%d %H:%M:%S") on <<date, "T", time, zone>>
FormatDate(d) == <<d[1], " ", d[3]>>

NoInfo ==
    [plot |-> <<>>, mpaa |-> <<>>, plotoutline |-> <<>>, duration |-> <<>>,
     tagline |-> <<>>, dateadded |-> <<>>, mediatype |-> <<>>,
     playcount |-> <<>>]

ParsedItem(label, url, info, art, properties) ==
    [label |-> label, url |-> url, info |-> info, art |-> art,
     properties |-> properties]

\* the item is returned whatever its title: nothing is dropped for want of
\* a label
parse_item(item, url) ==
    LET art == parse_item_art(item)
        title == item.title
        short_description == item.shortDescription
        plot == Or3(item.fullDescription, item.description,
                    short_description)
        date_added == item.availabilityStart
        info ==
            [NoInfo EXCEPT
                !.plot = plot,
                !.mpaa = item.ageRating,
                !.plotoutline =
                    IF Truthy(short_description) /\ short_description # plot
                    THEN short_description ELSE <<>>,
                !.duration = item.duration,
                !.tagline =
                    IF Truthy(item.subtitle) THEN item.subtitle
                    ELSE item.teaserText,
                !.dateadded =
                    IF Truthy(date_added) THEN FormatDate(date_added)
                    ELSE <<>>,
                !.mediatype = <<"movie">>]
    IN  IF art = ArtError THEN ArtError
        ELSE IF url.mode = "collection"
        THEN ParsedItem(title, url, [NoInfo EXCEPT !.plot = plot], art,
                        [isPlayable |-> "false"])
        ELSE ParsedItem(title, url, info, art, [isPlayable |-> "true"])

----------------------------------------------------------------------------
(* ArteTV.get_collection *)

\* the remote's answer to a catalog request: a JSON payload, or a non-2xx
\* status that the session's response hook turns into an exception
HttpError == [status |-> "error"]

OkResponse(body) == [status |-> "ok", body |-> body]

NoLevel == <<>>

ZONE_MARKERS ==
    {"banner_1", "collection_associated", "collection_content",
     "collection_partner", "collection_upcoming"}

EXTERNAL_TITLES == {<<"ARTE Boutique">>, <<"ARTE Radio">>}

\* the zone-marker test with "collection_partner" left out of the list
IsZoneMarker_noPartner(item) ==
    item.codeName # <<>>
    /\ item.codeName[1] \in ZONE_MARKERS \ {"collection_partner"}

\* code_name in ["banner_1", ...]
IsZoneMarker(item) ==
    item.codeName # <<>> /\ item.codeName[1] \in ZONE_MARKERS

\* kind == "EXTERNAL" or item.get("title") in ["ARTE Boutique", "ARTE Radio"]
IsExternal(item) ==
    item.kindCode = <<"EXTERNAL">> \/ item.title \in EXTERNAL_TITLES

\* the result of running the generator to its end: what it yielded, and the
\* exception that ended it, if any
Yielded(items, exc) == [items |-> items, raised |-> exc]

\* the loop over enumerate(collection), from position i (1-based) on
RECURSIVE WalkCollection(_, _, _)
WalkCollection(collection, i, path) ==
    IF i > Len(collection) THEN Yielded(<<>>, "none")
    ELSE LET item == collection[i]
             index == i - 1
             rest == WalkCollection(collection, i + 1, path)
             url == get_item_url(item, path, index)
             parsed_item == parse_item(item, url)
         IN  IF IsZoneMarker(item) \/ IsExternal(item) \/ url = NoUrl
             THEN rest
             ELSE IF parsed_item = ArtError
             THEN Yielded(<<>>, "Exception")
             ELSE Yielded(<<parsed_item>> \o rest.items, rest.raised)

NEXT_PAGE_LABEL == <<"$LOCALIZE[30201]">>

NEXT_PAGE_ICON == <<"media/next-page.png">>

\* the next-page item that strips _API_V3_BASE_URL instead of _api_v3_url
NextPageItems_baseOnly(data, lang) ==
    IF Truthy(data.nextPage)
    THEN <<ParsedItem(
               NEXT_PAGE_LABEL,
               [mode |-> "collection",
                path |-> Replace(data.nextPage, API_V3_BASE_URL, <<>>)],
               NoInfo,
               [NoArt EXCEPT !.icon = NEXT_PAGE_ICON],
               [SpecialSort |-> "bottom"])>>
    ELSE <<>>

\* the "next page" item of `data`, if it declares one
NextPageItems(data, lang) ==
    IF Truthy(data.nextPage)
    THEN <<ParsedItem(
               NEXT_PAGE_LABEL,
               [mode |-> "collection",
                path |-> Replace(data.nextPage, ApiV3Url(lang), <<>>)],
               NoInfo,
               [NoArt EXCEPT !.icon = NEXT_PAGE_ICON],
               [SpecialSort |-> "bottom"])>>
    ELSE <<>>

\* collection[level] with Python's indexing: a negative level counts from
\* the end, and one below -len(collection) raises IndexError
PyIndex(collection, level) ==
    IF level >= 0 THEN level + 1 ELSE Len(collection) + level + 1

\* a or b or [] on sequences
OrSeq(a, b) == IF a # <<>> THEN a ELSE b

\* the descent that keeps reading nextPage from the top-level payload
DescendedData_keepTop(top, collection, level) == top

\* the object bound to `data` once the level has been looked at: the top-level
\* payload, or the item at `level`
DescendedData(top, collection, level) ==
    IF level # NoLevel /\ level[1] < Len(collection)
    THEN collection[PyIndex(collection, level[1])]
    ELSE top

get_collection(resp, lang, path, level) ==
    IF resp = HttpError THEN Yielded(<<>>, "ArteTVException")
    ELSE LET top == resp.body
             collection0 == OrSeq(top.zones, top.data)
             descends == level # NoLevel /\ level[1] < Len(collection0)
         IN  IF descends /\ PyIndex(collection0, level[1]) < 1
             THEN Yielded(<<>>, "IndexError")
             ELSE LET data == DescendedData(top, collection0, level)
                      collection ==
                          IF descends THEN data.data ELSE collection0
                      walk == WalkCollection(collection, 1, path)
                  IN  IF walk.raised # "none" THEN walk
                      ELSE Yielded(walk.items \o NextPageItems(data, lang),
                                   "none")

----------------------------------------------------------------------------
(* ArteTV.get_video_streams *)

\* a player payload: `data` and `attributes` are optional (a sequence of at
\* most one element), `streams` is the list of stream groups
PlayerBody(streams) ==
    [data |-> <<[attributes |-> <<[streams |-> streams]>>]>>]

\* (data.get("attributes") or {}).get("streams") or []
PlayerStreams(body) ==
    IF body.data = <<>> THEN <<>>
    ELSE IF body.data[1].attributes = <<>> THEN <<>>
    ELSE body.data[1].attributes[1].streams

\* result[key] = value on an OrderedDict kept as a sequence of entries: a key
\* already present keeps its position and takes the new value
DictSet(result, entry) ==
    IF \E i \in 1..Len(result) : result[i].key = entry.key
    THEN [i \in 1..Len(result) |->
             IF result[i].key = entry.key THEN entry ELSE result[i]]
    ELSE Append(result, entry)

\* the test that skips a version only when both labels are missing
SkipsVersion_onlyIfBoth(stream_data) ==
    ~Truthy(stream_data.shortLabel) /\ ~Truthy(stream_data.label)

\* not stream_data.get("shortLabel") or not stream_data.get("label")
SkipsVersion(stream_data) ==
    ~Truthy(stream_data.shortLabel) \/ ~Truthy(stream_data.label)

\* not stream.get("url") or not stream.get("versions")
SkipsStream(stream) == ~Truthy(stream.url) \/ stream.versions = <<>>

RECURSIVE WalkStreams(_, _)
WalkStreams(streams, result) ==
    IF streams = <<>> THEN result
    ELSE LET stream == Head(streams)
             stream_data == stream.versions[1]
         IN  IF SkipsStream(stream) THEN WalkStreams(Tail(streams), result)
             ELSE IF SkipsVersion(stream_data)
             THEN WalkStreams(Tail(streams), result)
             ELSE WalkStreams(
                      Tail(streams),
                      DictSet(result,
                              [key |-> stream_data.shortLabel,
                               label |-> stream_data.label,
                               url |-> stream.url]))

\* the mapping returned, or the exception of a non-2xx answer
get_video_streams(resp) ==
    IF resp = HttpError THEN [streams |-> <<>>, raised |-> "ArteTVException"]
    ELSE [streams |-> WalkStreams(PlayerStreams(resp.body), <<>>),
          raised |-> "none"]

StreamKeys(streams) == {streams[i].key : i \in 1..Len(streams)}

\* streams[version]
StreamOf(streams, version) ==
    streams[CHOOSE i \in 1..Len(streams) : streams[i].key = version]

----------------------------------------------------------------------------
(* addon.py: ArteTVAddon *)

\* ArteTVAddon._addon_language: the language used, and the setting as stored
\* afterwards.  A stored setting is returned as it is.
addon_language(stored, kodi) ==
    IF stored = ""
    THEN LET lang == IF kodi \notin LANGUAGES THEN "en" ELSE kodi
         IN  [language |-> lang, setting |-> lang]
    ELSE [language |-> stored, setting |-> stored]

\* ArteTV.__exit__: closes the session.  No code path of the addon enters or
\* leaves the client as a context manager.
ArteTV_exit(sess) == IF sess = "open" THEN "closed" ELSE sess

\* int(text) on a text given character by character; <<>> for ValueError
IsDigit(c) == c \in {"0", "1", "2", "3", "4", "5", "6", "7", "8", "9"}

DigitValue(c) ==
    CASE c = "0" -> 0 [] c = "1" -> 1 [] c = "2" -> 2 [] c = "3" -> 3
      [] c = "4" -> 4 [] c = "5" -> 5 [] c = "6" -> 6 [] c = "7" -> 7
      [] c = "8" -> 8 [] c = "9" -> 9

RECURSIVE DigitsValue(_, _)
DigitsValue(s, acc) ==
    IF s = <<>> THEN acc
    ELSE DigitsValue(Tail(s), acc * 10 + DigitValue(Head(s)))

ParseInt(s) ==
    LET signed == s # <<>> /\ Head(s) \in {"-", "+"}
        digits == IF signed THEN Tail(s) ELSE s
    IN  IF digits = <<>> \/ \E i \in 1..Len(digits) : ~IsDigit(digits[i])
        THEN <<>>
        ELSE IF signed /\ Head(s) = "-"
        THEN <<0 - DigitsValue(digits, 0)>>
        ELSE <<DigitsValue(digits, 0)>>

\* urllib quote(text, safe=""), token by token
Quote(s) ==
    [i \in 1..Len(s) |->
        CASE s[i] = " " -> "%20" [] s[i] = "/" -> "%2F" [] OTHER -> s[i]]

\* ArteTVAddon._localize, token by token
Localize(label) ==
    [i \in 1..Len(label) |->
        IF label[i] = "$LOCALIZE[30201]" THEN "@30201" ELSE label[i]]

\* what a handler has done so far: the host calls, the requests issued and
\* the exception under way, if any
Progress(c, r, e) == [calls |-> c, requests |-> r, raised |-> e]

\* ArteTVAddon._add_video_context_menu: one player request, a second one when
\* more than one version exists; the menu entries, or the exception
add_video_context_menu(st, lang, video_id, player) ==
    LET got == get_video_streams(player)
        url == PlayerRequestUrl(lang, video_id)
    IN  IF got.raised # "none"
        THEN [st |-> Progress(st.calls, Append(st.requests, url), got.raised),
              menu |-> <<>>]
        ELSE IF Len(got.streams) <= 1
        THEN [st |-> Progress(st.calls, Append(st.requests, url), "none"),
              menu |-> <<>>]
        ELSE [st |-> Progress(st.calls, st.requests \o <<url, url>>, "none"),
              menu |-> [i \in 1..Len(got.streams) |->
                           [label |-> got.streams[i].label,
                            url |-> [mode |-> "watch", id |-> video_id,
                                     version |-> got.streams[i].key]]]]

\* ArteTVAddon._add_listitem
add_listitem(st, lang, parsed_item, player) ==
    LET is_folder == parsed_item.url.mode = "collection"
        label == Localize(parsed_item.label)
        plot == IF Truthy(parsed_item.info.plot) THEN parsed_item.info.plot
                ELSE label
        ctx == IF parsed_item.url.mode = "watch"
               THEN add_video_context_menu(st, lang, parsed_item.url.id,
                                           player)
               ELSE [st |-> st, menu |-> <<>>]
    IN  IF ctx.st.raised # "none" THEN ctx.st
        ELSE Progress(
                 Append(ctx.st.calls,
                        [op |-> "addDirectoryItem", url |-> parsed_item.url,
                         label |-> label, plot |-> plot,
                         properties |-> parsed_item.properties,
                         menu |-> ctx.menu, isFolder |-> is_folder]),
                 ctx.st.requests, "none")

\* the loop "for item in ...: self._add_listitem(item)": it ends at the first
\* exception
RECURSIVE AddAll(_, _, _, _)
AddAll(st, lang, items, player) ==
    IF items = <<>> \/ st.raised # "none" THEN st
    ELSE AddAll(add_listitem(st, lang, Head(items), player), lang,
                Tail(items), player)

\* ArteTVAddon._mode_collection
mode_collection(st, lang, path, levelParam, app, player) ==
    LET level == IF Truthy(levelParam) THEN ParseInt(levelParam) ELSE NoLevel
        gen == get_collection(app, lang, path, level)
        st1 == Progress(Append(st.calls, [op |-> "setContent"]),
                        Append(st.requests, AppRequestUrl(lang, path)),
                        "none")
        st2 == AddAll(st1, lang, gen.items, player)
    IN  IF st2.raised # "none" THEN st2
        ELSE Progress(st2.calls, st2.requests, gen.raised)

\* the watch resolution that plays the default version when the requested
\* one is unknown
mode_watch_fallback(st, lang, video_id, version, player, inputstream, kodi_version) ==
    LET got == get_video_streams(player)
        st1 == Progress(st.calls,
                        Append(st.requests, PlayerRequestUrl(lang, video_id)),
                        got.raised)
        streams == got.streams
        chosen == IF Truthy(version) /\ version \in StreamKeys(streams)
                  THEN version
                  ELSE IF streams = <<>> THEN <<>> ELSE streams[1].key
    IN  IF got.raised # "none" \/ ~Truthy(chosen) THEN st1
        ELSE Progress(Append(st1.calls,
                             [op |-> "setResolvedUrl", succeeded |-> TRUE,
                              listitem |->
                                  [path |-> StreamOf(streams, chosen).url]]),
                      st1.requests, "none")

\* ArteTVAddon._mode_watch; is_helper.check_inputstream() and _KODI_VERSION
\* come from the host
mode_watch(st, lang, video_id, version, player, inputstream, kodi_version) ==
    LET got == get_video_streams(player)
        st1 == Progress(st.calls,
                        Append(st.requests, PlayerRequestUrl(lang, video_id)),
                        got.raised)
        streams == got.streams
        chosen == IF ~Truthy(version)
                  THEN IF streams = <<>> THEN <<>> ELSE streams[1].key
                  ELSE IF version \in StreamKeys(streams) THEN version
                  ELSE <<>>
        listitem ==
            [path |-> StreamOf(streams, chosen).url,
             mimeType |-> IF inputstream
                          THEN <<"application/vnd.apple.mpegurl">> ELSE <<>>,
             properties |->
                 IF ~inputstream THEN {}
                 ELSE {<<"inputstream.adaptive.manifest_type", "hls">>,
                       IF kodi_version >= 19
                       THEN <<"inputstream", "inputstream.adaptive">>
                       ELSE <<"inputstreamaddon", "inputstream.adaptive">>}]
    IN  IF got.raised # "none" \/ ~Truthy(chosen) THEN st1
        ELSE Progress(Append(st1.calls,
                             [op |-> "setResolvedUrl", succeeded |-> TRUE,
                              listitem |-> listitem]),
                      st1.requests, "none")

SEARCH_PATH == <<"data", "/", "SEARCH_LISTING", "/", "?query=">>

\* ArteTVAddon._mode_search, given what the user typed; _mode_collection
\* reads the request's level parameter on this route too
mode_search(st, lang, search, levelParam, app, player) ==
    mode_collection(st, lang, SEARCH_PATH \o Quote(search), levelParam, app,
                    player)

RootItem(label, url, playable) ==
    ParsedItem(<<label>>, url, NoInfo, NoArt, [isPlayable |-> playable])

\* ArteTVAddon._mode_default: the root menu
mode_default(st, lang, player) ==
    LET live ==
            IF lang \in {"de", "fr"}
            THEN <<RootItem("@30001", [mode |-> "watch", id |-> <<"LIVE">>],
                            "true")>>
            ELSE <<>>
        fixed ==
            <<RootItem("@30002",
                       [mode |-> "collection", path |-> <<"CATEGORIES">>],
                       "false"),
              RootItem("@30003",
                       [mode |-> "collection", path |-> <<"MAGAZINES">>,
                        level |-> 0], "false"),
              RootItem("@30004",
                       [mode |-> "collection", path |-> <<"MOST_VIEWED">>,
                        level |-> 0], "false"),
              RootItem("@30005",
                       [mode |-> "collection", path |-> <<"MOST_RECENT">>,
                        level |-> 0], "false"),
              RootItem("@30006",
                       [mode |-> "collection", path |-> <<"LAST_CHANCE">>,
                        level |-> 0], "false"),
              RootItem("@30007", [mode |-> "search"], "false")>>
    IN  AddAll(st, lang, live \o fixed, player)

\* the finally clause that reports a failure to the host when the handler
\* raised
run_finally_reportFailure(st) ==
    Progress(Append(st.calls,
                    [op |-> "endOfDirectory", succeeded |-> st.raised = "none"]),
             st.requests, st.raised)

\* the finally clause that finalizes only when the handler returned
run_finally_onSuccessOnly(st) ==
    IF st.raised = "none"
    THEN Progress(Append(st.calls,
                         [op |-> "endOfDirectory", succeeded |-> TRUE]),
                  st.requests, st.raised)
    ELSE st

\* run(): the finally clause, entered however the handler ended
run_finally(st) ==
    Progress(Append(st.calls, [op |-> "endOfDirectory", succeeded |-> TRUE]),
             st.requests, st.raised)

----------------------------------------------------------------------------
(* The remote's payloads the model draws from *)

Resolution(w, url) == [w |-> w, url |-> <<url>>]

ItemWatch ==
    [RawItem EXCEPT
        !.title = <<"Film">>, !.programId = <<"7">>,
        !.shortDescription = <<"short">>, !.description = <<"long">>,
        !.subtitle = <<"sub">>, !.duration = <<"5400">>,
        !.availabilityStart = <<"2021-03-01", "T", "10:00:00", "Z">>,
        !.images = <<[type |-> "landscape",
                      resolutions |-> <<Resolution(1920, "big.jpg"),
                                        Resolution(400, "small.jpg")>>],
                     [type |-> "square", resolutions |-> <<>>]>>]

ItemNoTitle == [RawItem EXCEPT !.programId = <<"8">>]

ItemPartner ==
    [RawItem EXCEPT
        !.title = <<"Partner">>, !.codeName = <<"collection_partner">>,
        !.programId = <<"9">>]

ItemExternal ==
    [RawItem EXCEPT
        !.title = <<"Elsewhere">>, !.kindCode = <<"EXTERNAL">>,
        !.programId = <<"10">>]

ItemBrand ==
    [RawItem EXCEPT !.title = <<"ARTE Boutique">>, !.linkPage = <<"SHOP">>]

ItemUnmanaged == [RawItem EXCEPT !.title = <<"Nothing">>]

ItemBadImage ==
    [RawItem EXCEPT
        !.title = <<"Logo">>, !.programId = <<"11">>,
        !.images = <<[type |-> "logo", resolutions |-> <<>>]>>]

ItemColl ==
    [RawItem EXCEPT
        !.title = <<"Series">>, !.isCollection = TRUE,
        !.programId = <<"RC-1">>, !.kindCode = <<"TV_SERIES">>]

\* a video that links to the page CATEGORIES: a folder anywhere else
ItemSelfLink ==
    [RawItem EXCEPT
        !.title = <<"Linked">>, !.programId = <<"12">>,
        !.linkPage = <<"CATEGORIES">>]

Leaves ==
    {ItemWatch, ItemNoTitle, ItemPartner, ItemExternal, ItemBrand,
     ItemUnmanaged, ItemBadImage, ItemColl, ItemSelfLink}

\* a next-page link of the `lang` catalog
NextPageOf(lang) == ApiV3Url(lang) \o <<"/", "CATEGORIES?x=1">>

\* a zone: an item with a nested group, and possibly its own next page
Zone(data, next) ==
    [RawItem EXCEPT !.title = <<"Zone">>, !.data = data, !.nextPage = next]

\* a group nested inside a zone
SubZone == [RawItem EXCEPT !.title = <<"Sub">>, !.data = <<ItemColl>>]

Zones ==
    {Zone(<<first, ItemWatch>>, next) :
        first \in {ItemPartner, ItemNoTitle},
        next \in {<<>>, ApiV3Url("fr") \o <<"/", "zones", "/", "z?page=2">>}}
    \cup {Zone(<<ItemWatch, SubZone>>, <<>>)}

Payload(zones, data, next) ==
    [zones |-> zones, data |-> data, nextPage |-> next]

CandidateSeqs == SeqsUpTo(Leaves \cup Zones, MaxItems)

\* payloads with `zones` only, with `data` only, and with both
CollectionPayloads ==
    {Payload(z.zones, z.data, next) :
        z \in {[zones |-> c, data |-> <<>>] : c \in CandidateSeqs}
              \cup {[zones |-> <<>>, data |-> c] : c \in CandidateSeqs}
              \cup {[zones |-> c, data |-> <<ItemColl>>] :
                        c \in CandidateSeqs \ {<<>>}},
        next \in {<<>>, NextPageOf("fr")}}

CollectionResponses ==
    {HttpError} \cup {OkResponse(p) : p \in CollectionPayloads}

\* absent, every index of the longest candidate sequence, one past it, and
\* the negative indices Python accepts
CollectionLevels == {NoLevel} \cup {<<n>> : n \in (0 - 1)..MaxItems}

CollectionLanguage == "fr"

CollectionPaths == {<<"CATEGORIES">>, <<"MAGAZINES">>}

Version(short, label) == [shortLabel |-> short, label |-> label]

FirstVersions ==
    {Version(short, label) :
        short \in {<<>>, <<"FR">>, <<"DE">>}, label \in {<<>>, <<"Sprache">>}}

ExtraVersion == Version(<<"EN">>, <<"English">>)

VersionLists ==
    {<<>>} \cup {<<v>> : v \in FirstVersions}
    \cup {<<Version(<<>>, <<>>), ExtraVersion>>,
          <<Version(<<"FR">>, <<"Sprache">>), ExtraVersion>>}

StreamGroups ==
    [url : {<<>>, <<"https://cdn/a.m3u8">>, <<"https://cdn/b.m3u8">>},
     versions : VersionLists]

StreamResponses ==
    {HttpError, OkResponse([data |-> <<>>]),
     OkResponse([data |-> <<[attributes |-> <<>>]>>])}
    \cup {OkResponse(PlayerBody(g)) : g \in SeqsUpTo(StreamGroups, MaxStreams)}

----------------------------------------------------------------------------
(* Inputs of a request to the addon *)

NoResponse == [status |-> "none"]

Requests ==
    [mode : {<<>>, <<"collection">>, <<"watch">>, <<"search">>, <<"bogus">>},
     path : {<<>>, <<"CATEGORIES">>},
     level : {<<>>, <<"0">>, <<"1">>, <<"-", "1">>, <<"x">>},
     id : {<<>>, <<"7">>},
     version : {<<>>, <<"FR">>, <<"IT">>}]

StoredSettings == {"", "fr", "xx"}

KodiLanguages == {"de", "xx"}

SearchInputs == {<<>>, <<"arte">>, <<"a", " ", "b">>}

AddonPayloads ==
    {Payload(<<>>, <<>>, <<>>),
     Payload(<<>>, <<ItemColl, ItemWatch>>, NextPageOf("fr")),
     Payload(<<Zone(<<ItemPartner, ItemWatch>>, <<>>), ItemNoTitle>>, <<>>,
             <<>>),
     Payload(<<>>, <<ItemColl, ItemBadImage, ItemWatch>>, <<>>)}

AppResponses == {HttpError} \cup {OkResponse(p) : p \in AddonPayloads}

Stream(url, short, label) ==
    [url |-> <<url>>, versions |-> <<Version(<<short>>, <<label>>)>>]

PlayerResponses ==
    {HttpError,
     OkResponse(PlayerBody(<<>>)),
     OkResponse(PlayerBody(<<Stream("fr.m3u8", "FR", "Francais")>>)),
     OkResponse(PlayerBody(<<Stream("de.m3u8", "DE", "Deutsch"),
                             Stream("fr.m3u8", "FR", "Francais")>>))}

KodiVersions == {18, 19}

----------------------------------------------------------------------------
(* Specification Spec: one request handled by the addon *)

RouteIdle ==
    /\ rPc = "idle" /\ rItem = RawItem /\ rPath = <<>> /\ rIndex = 0
    /\ rUrl = NoUrl

CollectionIdle ==
    /\ cPc = "idle" /\ cResp = NoResponse /\ cPath = <<>> /\ cLevel = NoLevel
    /\ cOut = Yielded(<<>>, "none")
    /\ cFollow = 0 /\ cNext = Yielded(<<>>, "none")

StreamsIdle ==
    /\ sPc = "idle" /\ sResp = NoResponse
    /\ sOut = [streams |-> <<>>, raised |-> "none"]

AddonIdle ==
    /\ pc = "idle" /\ setting = "" /\ kodiLang = "" /\ params = <<>>
    /\ language = "" /\ session = "none" /\ calls = <<>> /\ requests = <<>>
    /\ raised = "none" /\ appResp = NoResponse /\ playerResp = NoResponse

Init ==
    /\ pc = "start"
    /\ setting \in StoredSettings
    /\ kodiLang \in KodiLanguages
    /\ params \in Requests
    /\ language = ""
    /\ session = "none"
    /\ calls = <<>>
    /\ requests = <<>>
    /\ raised = "none"
    /\ appResp = NoResponse
    /\ playerResp = NoResponse
    /\ RouteIdle /\ CollectionIdle /\ StreamsIdle

\* ArteTVAddon.__init__
Construct ==
    /\ pc = "start"
    /\ LET chosen == addon_language(setting, kodiLang)
       IN  /\ language' = chosen.language
           /\ setting' = chosen.setting
    /\ session' = "open"
    /\ pc' = "constructed"
    /\ UNCHANGED <<kodiLang, params, calls, requests, raised, appResp,
                   playerResp, routeVars, collVars, streamVars>>

\* the end of run(): the handler's effects, then the finally clause
Finish(st, app, player) ==
    LET end == run_finally(st)
    IN  /\ calls' = end.calls
        /\ requests' = end.requests
        /\ raised' = end.raised
        /\ appResp' = app
        /\ playerResp' = player
        /\ pc' = "done"
        /\ UNCHANGED <<setting, kodiLang, params, language, session,
                       routeVars, collVars, streamVars>>

Start == Progress(calls, requests, "none")

IsCollectionRequest ==
    params.mode = <<"collection">> /\ Truthy(params.path)

IsWatchRequest ==
    ~IsCollectionRequest /\ params.mode = <<"watch">> /\ Truthy(params.id)

IsSearchRequest ==
    ~IsCollectionRequest /\ ~IsWatchRequest /\ params.mode = <<"search">>

\* run() on mode=collection with a path
RunCollection ==
    /\ pc = "constructed"
    /\ IsCollectionRequest
    /\ \E app \in AppResponses, player \in PlayerResponses :
           Finish(mode_collection(Start, language, params.path, params.level,
                                  app, player),
                  app, player)

\* run() on mode=watch with an id
RunWatch ==
    /\ pc = "constructed"
    /\ IsWatchRequest
    /\ \E player \in PlayerResponses, inputstream \in BOOLEAN,
          kodi_version \in KodiVersions :
           Finish(mode_watch(Start, language, params.id, params.version,
                             player, inputstream, kodi_version),
                  NoResponse, player)

\* run() on mode=search
RunSearch ==
    /\ pc = "constructed"
    /\ IsSearchRequest
    /\ \E search \in SearchInputs, app \in AppResponses,
          player \in PlayerResponses :
           Finish(mode_search(Start, language, search, params.level, app,
                              player),
                  app, player)

\* run() on anything else: the root menu
RunDefault ==
    /\ pc = "constructed"
    /\ ~IsCollectionRequest /\ ~IsWatchRequest /\ ~IsSearchRequest
    /\ \E player \in PlayerResponses :
           Finish(mode_default(Start, language, player), NoResponse, player)

Next == Construct \/ RunCollection \/ RunWatch \/ RunSearch \/ RunDefault

Spec == Init /\ [][Next]_vars

----------------------------------------------------------------------------
(* Specification SpecRoute: _get_item_url on every combination of fields *)

RouteItems ==
    {[RawItem EXCEPT
         !.isCollection = c, !.programId = p, !.linkPage = l, !.data = d] :
        c \in BOOLEAN,
        p \in {<<>>, <<"7">>},
        l \in {<<>>, <<"CATEGORIES">>, <<"RC-2">>},
        d \in {<<>>, <<ItemWatch>>}}

RoutePaths == {<<"CATEGORIES">>, <<"MAGAZINES">>}

InitRoute ==
    /\ rPc = "ready"
    /\ rItem \in RouteItems
    /\ rPath \in RoutePaths
    /\ rIndex \in 0..MaxIndex
    /\ rUrl = NoUrl
    /\ AddonIdle /\ CollectionIdle /\ StreamsIdle

RouteCall ==
    /\ rPc = "ready"
    /\ rUrl' = get_item_url(rItem, rPath, rIndex)
    /\ rPc' = "done"
    /\ UNCHANGED <<rItem, rPath, rIndex, addonVars, collVars, streamVars>>

NextRoute == RouteCall

SpecRoute == InitRoute /\ [][NextRoute]_vars

----------------------------------------------------------------------------
(* Specification SpecCollection: get_collection run to its end *)

InitCollection ==
    /\ cPc = "ready"
    /\ cResp \in CollectionResponses
    /\ cPath \in CollectionPaths
    /\ cLevel \in CollectionLevels
    /\ cOut = Yielded(<<>>, "none")
    /\ cFollow = 0
    /\ cNext = Yielded(<<>>, "none")
    /\ AddonIdle /\ RouteIdle /\ StreamsIdle

CollectionCall ==
    /\ cPc = "ready"
    /\ cOut' = get_collection(cResp, CollectionLanguage, cPath, cLevel)
    /\ cPc' = "done"
    /\ UNCHANGED <<cResp, cPath, cLevel, cFollow, cNext, addonVars, routeVars,
                   streamVars>>

\* a yielded folder whose target carries a level is opened: get_collection is
\* called with the target's path and level, and the remote answers as before
CollectionFollow ==
    /\ cPc = "done"
    /\ \E k \in 1..Len(cOut.items) :
           /\ "level" \in DOMAIN cOut.items[k].url
           /\ cFollow' = k
           /\ cNext' = get_collection(cResp, CollectionLanguage,
                                      cOut.items[k].url.path,
                                      <<cOut.items[k].url.level>>)
    /\ cPc' = "followed"
    /\ UNCHANGED <<cResp, cPath, cLevel, cOut, addonVars, routeVars,
                   streamVars>>

NextCollection == CollectionCall \/ CollectionFollow

SpecCollection == InitCollection /\ [][NextCollection]_vars

----------------------------------------------------------------------------
(* Specification SpecStreams: get_video_streams *)

InitStreams ==
    /\ sPc = "ready"
    /\ sResp \in StreamResponses
    /\ sOut = [streams |-> <<>>, raised |-> "none"]
    /\ AddonIdle /\ RouteIdle /\ CollectionIdle

StreamsCall ==
    /\ sPc = "ready"
    /\ sOut' = get_video_streams(sResp)
    /\ sPc' = "done"
    /\ UNCHANGED <<sResp, addonVars, routeVars, collVars>>

NextStreams == StreamsCall

SpecStreams == InitStreams /\ [][NextStreams]_vars

----------------------------------------------------------------------------
(* Claims about ArteTVAddon.run, under Spec *)

CallsOf(op) == {i \in 1..Len(calls) : calls[i].op = op}

\* C1: every request that run() handled, whether its handler returned or
\* raised, made exactly one endOfDirectory call, and made it after every
\* addDirectoryItem and setResolvedUrl call; before run() no such call exists
C1_FinalizedOnceAndLast ==
    /\ pc = "done" =>
           /\ Cardinality(CallsOf("endOfDirectory")) = 1
           /\ calls[Len(calls)].op = "endOfDirectory"
           /\ \A i \in CallsOf("addDirectoryItem") \cup CallsOf("setResolvedUrl") :
                  i < Len(calls)
    /\ pc # "done" => CallsOf("endOfDirectory") = {}

\* a handler raised after it had added rows, and the listing was finalized
C1_Witness ==
    /\ pc = "done"
    /\ raised # "none"
    /\ CallsOf("addDirectoryItem") # {}
    /\ calls[Len(calls)].op = "endOfDirectory"

WatchDone == pc = "done" /\ params.mode = <<"watch">> /\ Truthy(params.id)

\* the mapping get_video_streams returned to the watch handler
WatchStreams == get_video_streams(playerResp).streams

\* C2: a watch request with a version that is no key of the mapping makes no
\* setResolvedUrl call; with a version that is a key, it makes exactly one,
\* whose list item's path is that variant's URL
C2_WatchVersion ==
    (WatchDone /\ Truthy(params.version) /\ playerResp # HttpError) =>
        IF params.version \in StreamKeys(WatchStreams)
        THEN /\ Cardinality(CallsOf("setResolvedUrl")) = 1
             /\ \A i \in CallsOf("setResolvedUrl") :
                    calls[i].listitem.path
                        = StreamOf(WatchStreams, params.version).url
        ELSE CallsOf("setResolvedUrl") = {}

\* version "IT" was asked for while other versions exist, and nothing was
\* resolved
C2_Witness ==
    /\ WatchDone
    /\ params.version = <<"IT">>
    /\ playerResp # HttpError
    /\ StreamKeys(WatchStreams) = {<<"DE">>, <<"FR">>}
    /\ CallsOf("setResolvedUrl") = {}

\* the level _mode_collection passes on: the parameter as an integer, absent
\* when the parameter is missing, empty or no integer
RequestLevel ==
    IF Truthy(params.level) THEN ParseInt(params.level) ELSE NoLevel

\* the items get_collection yields for a finished collection request
RequestItems ==
    get_collection(appResp, language, params.path, RequestLevel).items

\* the addDirectoryItem calls of the request, in the order they were made
RECURSIVE RowsFrom(_)
RowsFrom(i) ==
    IF i > Len(calls) THEN <<>>
    ELSE IF calls[i].op = "addDirectoryItem"
    THEN <<calls[i]>> \o RowsFrom(i + 1)
    ELSE RowsFrom(i + 1)

\* how many of the yielded items were added before the handler stopped: all
\* of them when the player answers, those ahead of the first video when the
\* player request of its context menu fails
RowsExpected ==
    IF playerResp # HttpError THEN Len(RequestItems)
    ELSE IF \E k \in 1..Len(RequestItems) : RequestItems[k].url.mode = "watch"
    THEN (CHOOSE k \in 1..Len(RequestItems) :
              /\ RequestItems[k].url.mode = "watch"
              /\ \A h \in 1..(k - 1) : RequestItems[h].url.mode # "watch") - 1
    ELSE Len(RequestItems)

\* C14: every finished request, whether its handler returned, returned early
\* or raised, made its endOfDirectory call with succeeded = TRUE; and a
\* collection request that failed keeps, ahead of that call, one row for each
\* item that was yielded before the failure
C14_AlwaysReportsSuccess ==
    pc = "done" =>
        /\ CallsOf("endOfDirectory") # {}
        /\ \A i \in CallsOf("endOfDirectory") : calls[i].succeeded = TRUE
        /\ IsCollectionRequest =>
               /\ Len(RowsFrom(1)) = RowsExpected
               /\ \A k \in 1..Len(RowsFrom(1)) :
                      RowsFrom(1)[k].url = RequestItems[k].url
        /\ (IsWatchRequest /\ CallsOf("setResolvedUrl") = {}) =>
               calls = <<[op |-> "endOfDirectory", succeeded |-> TRUE]>>

\* a collection request whose second item has an unmapped image type: the
\* handler raised with one row added, and success was reported all the same
C14_Witness ==
    /\ pc = "done"
    /\ IsCollectionRequest
    /\ raised = "Exception"
    /\ Len(RowsFrom(1)) = 1
    /\ RowsExpected = 1
    /\ calls[Len(calls)] = [op |-> "endOfDirectory", succeeded |-> TRUE]

\* C9 as claimed: when a request is over the client's session is closed
C9_SessionReleased == pc = "done" => session = "closed"

\* the language token of a catalog or player request URL
RequestLanguage(url) == url[3]

\* C10 as claimed: no client is built for an unsupported language, so that
\* no catalog or player request carries an unsupported language in its URL
C10_SupportedLanguageOnly ==
    \A i \in 1..Len(requests) : RequestLanguage(requests[i]) \in LANGUAGES

----------------------------------------------------------------------------
(* Claims about _get_item_url, under SpecRoute *)

RouteRule1 == rItem.isCollection /\ rItem.programId # <<>>
RouteRule2 == rItem.linkPage # <<>> /\ rItem.linkPage # rPath
RouteRule3 == rItem.data # <<>>
RouteRule4 == rItem.programId # <<>>

\* C3: the route is the one of the first rule that matches, in the order
\* 1 (collection with programId), 2 (link.page other than the path),
\* 3 (nested data), 4 (programId), and no route when none matches
C3_FirstMatchWins ==
    rPc = "done" =>
        /\ RouteRule1 =>
               rUrl = [mode |-> "collection", path |-> rItem.programId]
        /\ (~RouteRule1 /\ RouteRule2) =>
               rUrl = [mode |-> "collection", path |-> rItem.linkPage]
        /\ (~RouteRule1 /\ ~RouteRule2 /\ RouteRule3) =>
               rUrl = [mode |-> "collection", path |-> rPath,
                       level |-> rIndex]
        /\ (~RouteRule1 /\ ~RouteRule2 /\ ~RouteRule3 /\ RouteRule4) =>
               rUrl = [mode |-> "watch", id |-> rItem.programId]
        /\ (~RouteRule1 /\ ~RouteRule2 /\ ~RouteRule3 /\ ~RouteRule4) =>
               rUrl = NoUrl

\* rules 1, 2 and 3 all match one item, and rule 1 decided
C3_Witness ==
    /\ rPc = "done"
    /\ RouteRule1 /\ RouteRule2 /\ RouteRule3
    /\ rUrl = [mode |-> "collection", path |-> rItem.programId]

----------------------------------------------------------------------------
(* Claims about get_collection, under SpecCollection *)

\* the call returned or raised after the payload had been fetched and the
\* level looked up
CollectionListed ==
    cPc = "done" /\ cResp # HttpError /\ cOut.raised # "IndexError"

TopCandidates ==
    IF cResp.body.zones # <<>> THEN cResp.body.zones ELSE cResp.body.data

LevelDescends == cLevel # NoLevel /\ cLevel[1] < Len(TopCandidates)

\* the object whose items are listed: the payload, or the item at the level
ListedObject ==
    IF LevelDescends
    THEN TopCandidates[IF cLevel[1] >= 0 THEN cLevel[1] + 1
                       ELSE Len(TopCandidates) + cLevel[1] + 1]
    ELSE cResp.body

ListedCandidates ==
    IF LevelDescends THEN ListedObject.data ELSE TopCandidates

IsLoadMore(item) == "SpecialSort" \in DOMAIN item.properties

\* the items built from candidates
RegularItems == SelectSeq(cOut.items, LAMBDA it : ~IsLoadMore(it))

LoadMoreAt == {i \in 1..Len(cOut.items) : IsLoadMore(cOut.items[i])}

IsDenied(c) ==
    \/ c.codeName \in {<<"banner_1">>, <<"collection_associated">>,
                       <<"collection_content">>, <<"collection_partner">>,
                       <<"collection_upcoming">>}
    \/ c.kindCode = <<"EXTERNAL">>
    \/ c.title \in {<<"ARTE Boutique">>, <<"ARTE Radio">>}

IsRoutable(c) ==
    \/ c.programId # <<>>
    \/ c.data # <<>>
    \/ (c.linkPage # <<>> /\ c.linkPage # cPath)

\* the candidates that are neither denied nor unroutable, in payload order
KeptCandidates ==
    SelectSeq(ListedCandidates, LAMBDA c : ~IsDenied(c) /\ IsRoutable(c))

\* C4: the items built from candidates are, in order, those of the
\* candidates that are not denied (zone marker, EXTERNAL kind, external-brand
\* title) and have a route: no denied candidate is yielded whatever its
\* other fields, and a skipped candidate does not keep a later one from
\* being yielded (all of them when the call returns, a prefix when it raises)
C4_DeniedNeverYielded ==
    CollectionListed =>
        /\ Len(RegularItems) <= Len(KeptCandidates)
        /\ cOut.raised = "none" => Len(RegularItems) = Len(KeptCandidates)
        /\ \A k \in 1..Len(RegularItems) :
               /\ RegularItems[k].label = KeptCandidates[k].title
               /\ ~IsDenied(KeptCandidates[k])
        /\ \A k \in 1..Len(RegularItems) :
               \A c \in {ListedCandidates[j] : j \in 1..Len(ListedCandidates)} :
                   IsDenied(c) => RegularItems[k].label # c.title

\* a partner zone marker that carries a programId is skipped and the video
\* after it is yielded
C4_Witness ==
    /\ CollectionListed
    /\ ListedCandidates = <<ItemPartner, ItemWatch>>
    /\ Len(RegularItems) = 1
    /\ RegularItems[1].label = <<"Film">>

LoadMoreIsLast ==
    /\ LoadMoreAt = {Len(cOut.items)}
    /\ cOut.items[Len(cOut.items)].properties.SpecialSort = "bottom"

\* C5 as claimed, for the calls that return and a level that is absent or
\* not negative: the load-more item is there, once and last, exactly when the
\* payload fetched for the path declares a nextPage
C5_NextPageOfPayload ==
    (/\ CollectionListed
     /\ cOut.raised = "none"
     /\ (cLevel = NoLevel \/ cLevel[1] >= 0)) =>
        IF cResp.body.nextPage # <<>> THEN LoadMoreIsLast
        ELSE LoadMoreAt = {}

\* C5, amended: the nextPage that counts is the one of the object whose items
\* are listed, which is the payload unless the level selected one of its
\* items; when the call returns, the load-more item is there, once, last and
\* sorted to the bottom, exactly when that object declares a nextPage; when
\* the call raises, no load-more item was yielded
C5_NextPageOfListedObject ==
    CollectionListed =>
        IF cOut.raised = "none" /\ ListedObject.nextPage # <<>>
        THEN LoadMoreIsLast
        ELSE LoadMoreAt = {}

\* the level selected a zone that declares a nextPage inside a payload that
\* declares none, and the zone's load-more item was yielded last
C5_Witness ==
    /\ CollectionListed
    /\ LevelDescends
    /\ cResp.body.nextPage = <<>>
    /\ ListedObject.nextPage # <<>>
    /\ Len(cOut.items) > 1
    /\ LoadMoreIsLast

\* the listed object's nextPage is "<api-base>/<language>/app/CATEGORIES?x=1"
\* in the client's language, and the call returned
NextPageOfClientLanguage ==
    /\ CollectionListed
    /\ cOut.raised = "none"
    /\ ListedObject.nextPage
           = API_V3_BASE_URL
             \o <<"/", CollectionLanguage, "/", "app", "/", "CATEGORIES?x=1">>

LoadMoreUrl == cOut.items[Len(cOut.items)].url

\* C6 as claimed: the load-more target is {mode: collection, path:
\* "CATEGORIES?x=1"}, with no leading separator
C6_PathWithoutSeparator ==
    NextPageOfClientLanguage =>
        LoadMoreUrl = [mode |-> "collection", path |-> <<"CATEGORIES?x=1">>]

\* C6, amended: the load-more target is {mode: collection, path:
\* "/CATEGORIES?x=1"}: the nextPage URL with the prefix
\* "<api-base>/<language>/app" removed and the separator after it kept; a
\* catalog request for that path is a request for the nextPage URL itself
C6_PathKeepsSeparator ==
    NextPageOfClientLanguage =>
        /\ LoadMoreUrl
               = [mode |-> "collection", path |-> <<"/", "CATEGORIES?x=1">>]
        /\ AppRequestUrl(CollectionLanguage, LoadMoreUrl.path)
               = ListedObject.nextPage

\* a payload with that nextPage was listed and its load-more item yielded
C6_Witness ==
    /\ NextPageOfClientLanguage
    /\ IsLoadMore(cOut.items[Len(cOut.items)])
    /\ Head(LoadMoreUrl.path) = "/"

\* C7 as claimed: every yielded item has a non-empty label and a target of
\* mode collection or watch; a collection target has a non-empty path and,
\* if it has a level, an integer one
C7_ItemsWellFormed ==
    cPc = "done" =>
        \A i \in 1..Len(cOut.items) :
            LET item == cOut.items[i]
            IN  /\ item.label # <<>>
                /\ item.url.mode \in {"collection", "watch"}
                /\ item.url.mode = "collection" =>
                       /\ item.url.path # <<>>
                       /\ "level" \in DOMAIN item.url =>
                              item.url.level \in Int

\* the level is given and is an index of the top-level candidate sequence
LevelIsValidIndex ==
    cLevel # NoLevel /\ 0 <= cLevel[1] /\ cLevel[1] < Len(TopCandidates)

\* the candidates C11 expects to be listed
ClaimedCandidates ==
    IF LevelIsValidIndex THEN TopCandidates[cLevel[1] + 1].data
    ELSE TopCandidates

ClaimedKept ==
    SelectSeq(ClaimedCandidates, LAMBDA c : ~IsDenied(c) /\ IsRoutable(c))

\* C11 as claimed: the candidates are `zones`, else `data`, else none; they
\* are replaced by the `data` of the item at `level` exactly when level is
\* given and 0 <= level < their number; for any other level (absent, too
\* large, negative) the top-level candidates are listed and the call does not
\* fail on the level
C11_LevelSelectsCandidates ==
    (cPc = "done" /\ cResp # HttpError) =>
        /\ cOut.raised # "IndexError"
        /\ Len(RegularItems) <= Len(ClaimedKept)
        /\ cOut.raised = "none" => Len(RegularItems) = Len(ClaimedKept)
        /\ \A k \in 1..Len(RegularItems) :
               k <= Len(ClaimedKept)
               /\ RegularItems[k].label = ClaimedKept[k].title

\* the raw item whose route the followed target is: the candidate at the
\* target's level in the listing that yielded it
FollowedSource == ListedCandidates[cOut.items[cFollow].url.level + 1]

FollowedKept ==
    SelectSeq(FollowedSource.data, LAMBDA c : ~IsDenied(c) /\ IsRoutable(c))

NextRegularItems == SelectSeq(cNext.items, LAMBDA it : ~IsLoadMore(it))

\* the second call listed the nested group of the followed item's source
ListsFollowedGroup ==
    /\ cNext.raised # "IndexError"
    /\ Len(NextRegularItems) <= Len(FollowedKept)
    /\ cNext.raised = "none" => Len(NextRegularItems) = Len(FollowedKept)
    /\ \A k \in 1..Len(NextRegularItems) :
           k <= Len(FollowedKept)
           /\ NextRegularItems[k].label = FollowedKept[k].title

\* C12 as claimed: when get_collection(path, level), for a level that is
\* absent or a valid index, yields a target {mode: collection, path: path,
\* level: i}, get_collection(path, i) on the same payload lists the nested
\* `data` of the raw item that produced the target
C12_LevelRoundTrip ==
    (/\ cPc = "followed"
     /\ cResp # HttpError
     /\ (cLevel = NoLevel \/ LevelIsValidIndex)) =>
        /\ cOut.items[cFollow].label = FollowedSource.title
        /\ cOut.items[cFollow].url.path = cPath
        /\ ListsFollowedGroup

----------------------------------------------------------------------------
(* Claims about get_video_streams, under SpecStreams *)

StreamsReturned == sPc = "done" /\ sResp # HttpError

\* the stream groups of the payload, none when data, attributes or streams
\* is absent
GivenStreams ==
    IF sResp.body.data = <<>> THEN <<>>
    ELSE IF sResp.body.data[1].attributes = <<>> THEN <<>>
    ELSE sResp.body.data[1].attributes[1].streams

GroupsWhere(Test(_)) ==
    {GivenStreams[i] : i \in {j \in 1..Len(GivenStreams) : Test(GivenStreams[j])}}

EntryOf(g) ==
    [key |-> g.versions[1].shortLabel, label |-> g.versions[1].label,
     url |-> g.url]

\* the mapping holds one entry per short code of the groups that pass Test,
\* every entry is the first version of such a group, and nothing was raised
MappingIsOf(Test(_)) ==
    /\ sOut.raised = "none"
    /\ StreamKeys(sOut.streams) = {EntryOf(g).key : g \in GroupsWhere(Test)}
    /\ Len(sOut.streams) = Cardinality(StreamKeys(sOut.streams))
    /\ \A i \in 1..Len(sOut.streams) :
           \E g \in GroupsWhere(Test) : sOut.streams[i] = EntryOf(g)

HasUrlAndVersion(g) == g.url # <<>> /\ g.versions # <<>>

\* a group is kept unless its first version lacks the short code and the
\* label, both
KeptUnlessBothMissing(g) ==
    /\ HasUrlAndVersion(g)
    /\ ~(g.versions[1].shortLabel = <<>> /\ g.versions[1].label = <<>>)

\* a group is kept when its first version has the short code and the label
KeptIfBothPresent(g) ==
    /\ HasUrlAndVersion(g)
    /\ g.versions[1].shortLabel # <<>>
    /\ g.versions[1].label # <<>>

\* C8 as claimed: a group is skipped exactly when it lacks a URL, has no
\* version, or its first version lacks both the short code and the label
C8_SkipsWhenBothMissing ==
    StreamsReturned => MappingIsOf(KeptUnlessBothMissing)

\* C8, amended: only the first version of a group is read; a group is skipped
\* exactly when it lacks a URL, has no version, or its first version lacks
\* the short code or lacks the label; every other group's short code is a key
\* of the mapping; the mapping is empty, and nothing is raised, when the
\* stream list is empty or absent or no group has both a URL and a version
C8_SkipsWhenEitherMissing ==
    StreamsReturned =>
        /\ MappingIsOf(KeptIfBothPresent)
        /\ (\A i \in 1..Len(GivenStreams) : ~HasUrlAndVersion(GivenStreams[i]))
               => sOut.streams = <<>>

\* a group whose first version has a short code and no label came before a
\* complete group: only the second is in the mapping
C8_Witness ==
    /\ StreamsReturned
    /\ Len(GivenStreams) = 2
    /\ HasUrlAndVersion(GivenStreams[1])
    /\ GivenStreams[1].versions[1] = Version(<<"FR">>, <<>>)
    /\ KeptIfBothPresent(GivenStreams[2])
    /\ sOut.streams = <<EntryOf(GivenStreams[2])>>

\* the position of the first group that is kept and has the short code `key`
FirstGroupOf(key) ==
    CHOOSE j \in 1..Len(GivenStreams) :
        /\ KeptIfBothPresent(GivenStreams[j])
        /\ GivenStreams[j].versions[1].shortLabel = key
        /\ \A h \in 1..(j - 1) :
               ~(/\ KeptIfBothPresent(GivenStreams[h])
                 /\ GivenStreams[h].versions[1].shortLabel = key)

\* C13 as claimed: each key of the mapping holds the label and URL of the
\* first kept group with that short code, and the keys come in the order of
\* those groups
C13_FirstOccurrenceWins ==
    (StreamsReturned /\ MappingIsOf(KeptIfBothPresent)) =>
        /\ \A i \in 1..Len(sOut.streams) :
               sOut.streams[i]
                   = EntryOf(GivenStreams[FirstGroupOf(sOut.streams[i].key)])
        /\ \A i, j \in 1..Len(sOut.streams) :
               i < j => FirstGroupOf(sOut.streams[i].key)
                            < FirstGroupOf(sOut.streams[j].key)

====
